---- MODULE Spec2Model ----
(***************************************************************************)
(* Job orchestration of Fan-Finder (app/backend/app.py): the registry of   *)
(* running instances, ScriptRunner.run (launch, output reader, cleanup),   *)
(* handle_start_script and handle_stop_script.  The server runs with       *)
(* async_mode='threading': every socket handler and every ScriptRunner.run *)
(* is a thread of its own, so each is split into steps at its accesses to  *)
(* the shared globals running_instances and running_process.               *)
(***************************************************************************)
EXTENDS Integers, Sequences, FiniteSets, TLC

\* ------------------------------------------------------------------ bounds
MaxRunners == 2      \* start requests (ScriptRunner objects) in one run
MaxStops == 2        \* stop requests in one run
MaxInstance == 1     \* instance numbers 1..MaxInstance
MaxLines == 1        \* lines one child writes, orchestration specifications
MaxReaderLines == 2  \* lines one child writes, reader specification
MaxChildren == 2     \* chrome children of one child process
MaxTarget == 1       \* settings['target_users'] is in 0..MaxTarget when present
MaxPosts == 2        \* the posts a keyword search shows
MaxCommenters == 2   \* the commenters of one post
MaxWorkers == 2      \* the workers that run for one account at the same time
MaxAdds == 1         \* each worker calls add_user_to_json at most MaxAdds times
MaxReplies == 2      \* get_script_status is asked at most MaxReplies times
MaxProcs == 2        \* processes in the table the orphan reaper scans

RunnerIds == 1..MaxRunners
StopIds == 1..MaxStops
ChildIds == 1..MaxChildren
ScriptTypes == {"discovery", "keyword"}
InstanceNumbers == 1..MaxInstance
TargetCounts == 0..MaxTarget

\* f'{script_type}-{instance_number}'
instance_key(script_type, instance_number) == <<script_type, "-", instance_number>>

\* ------------------------------------------------------------------ lines
\* A line of child output is a sequence of tokens: whitespace, a word, or a
\* segment shaped "<verb>: <user> (<n>/<m> - <pct>%)".
WS == [t |-> "ws", s |-> " ", verb |-> "", n |-> 0, m |-> 0, pct |-> ""]
Word(s) == [t |-> "word", s |-> s, verb |-> "", n |-> 0, m |-> 0, pct |-> ""]
Seg(verb, user, n, m, pct) ==
    [t |-> "seg", s |-> user, verb |-> verb, n |-> n, m |-> m, pct |-> pct]

RECURSIVE LStrip(_)
LStrip(line) ==
    IF line # <<>> /\ Head(line).t = "ws" THEN LStrip(Tail(line)) ELSE line

RECURSIVE RStrip(_)
RStrip(line) ==
    IF line # <<>> /\ line[Len(line)].t = "ws"
    THEN RStrip(SubSeq(line, 1, Len(line) - 1))
    ELSE line

\* str.strip()
Strip(line) == RStrip(LStrip(line))

\* str.lower() on the verb phrases the model uses
Lower(verb) ==
    CASE verb = "New user found" -> "new user found"
      [] verb = "NEW USER FOUND" -> "new user found"
      [] verb = "Collected user" -> "collected user"
      [] OTHER -> verb

\* a search without re.IGNORECASE: the verb phrases in lower case alone
progress_match_cased(clean_line) ==
    LET hits == {i \in 1..Len(clean_line) :
                    /\ clean_line[i].t = "seg"
                    /\ clean_line[i].verb \in {"collected user", "new user found"}}
    IN IF hits = {} THEN 0 ELSE CHOOSE i \in hits : \A j \in hits : i <= j

\* re.search(r'(?:collected user|new user found):\s*([^\s]+)\s*\((\d+)/(\d+)\s*-\s*([\d.]+)%\)',
\*           clean_line, re.IGNORECASE): the index of the leftmost matching segment, 0 for None
progress_match(clean_line) ==
    LET hits == {i \in 1..Len(clean_line) :
                    /\ clean_line[i].t = "seg"
                    /\ Lower(clean_line[i].verb) \in {"collected user", "new user found"}}
    IN IF hits = {} THEN 0 ELSE CHOOSE i \in hits : \A j \in hits : i <= j

\* float(match.group(4)) raises ValueError on a [\d.]+ text that is no number
IsFloat(pct) == pct \in {"14.0", "100.0", "50.0", "14"}

\* float(match.group(4)), in tenths
Float(pct) ==
    CASE pct = "14.0" -> 140
      [] pct = "14" -> 140
      [] pct = "50.0" -> 500
      [] pct = "100.0" -> 1000
      [] OTHER -> 0

\* the lines a child writes in the orchestration specification
CoreLines == { <<Word("Navigating")>>,
               <<Seg("New user found", "alice123", 1, 1, "100.0")>> }

\* the lines a child writes in the reader specification
ReaderLines ==
    CoreLines \cup
    { <<>>, <<WS>>,
      <<WS, Word("Navigating"), WS>>,
      <<Seg("Collected user", "bob", 2, 2, "50.0")>>,
      <<Seg("NEW USER FOUND", "carol", 2, 1, "14.0")>>,
      <<Seg("Old user found", "dave", 1, 1, "14.0")>>,
      <<Seg("collected user", "frank", 1, 2, "14")>>,
      <<Word("x"), WS, Seg("New user found", "erin", 2, 2, ".")>> }

\* ------------------------------------------------------------------ state
VARIABLES
    running_instances,    \* {instance_key: process}, the registry
    running_process,      \* legacy global, 0 is None
    current_script_type,  \* legacy global, "none" is None
    runner,               \* the ScriptRunner objects and their threads
    proc,                 \* the child process of each runner (its handle is the runner's id)
    stopper,              \* the handle_stop_script threads
    rlines,               \* history: the lines each reader has read
    outLog,               \* history: the script_output payloads each read loop forwarded
    elog,                 \* history: the events emitted for each runner's instance
                          \* ("error_sid" is a script_error sent to the requester alone)
    finished,             \* history: the script_finished payloads of each runner
    slog,                 \* history: the events each stop handler emitted
    ptable,               \* the processes psutil.process_iter yields to the orphan reaper
    killed,               \* history: the indices in ptable of the processes the reaper killed
    worker,               \* keywordSearch.py main() running as the child of a keyword job
    replies,              \* history: the answers of get_script_status, in order
    server,               \* the server process: its phase and the reaper sweeps it has run
    launcher,             \* the building of one argument vector: job type, settings, args
    collector,            \* keywordSearch.py: the collection loop over posts and commenters
    store                 \* the stored user list of one account and the add_user_to_json calls

\* the state outside the job orchestration
\* the state of the worker script's collection and of the user storage
scriptvars == <<collector, store>>

aux == <<ptable, killed, worker, replies, server, launcher, scriptvars>>

vars == <<running_instances, running_process, current_script_type, runner, proc,
          stopper, rlines, outLog, elog, finished, slog, ptable, killed, worker,
          replies, server, launcher, collector, store>>

NoRunner ==
    [pc |-> "idle", script_type |-> "none", instance_number |-> 0,
     has_target |-> FALSE, target_users |-> 0, collected_users |-> 0, return_code |-> 0,
     \* history: the payloads of the user_collected and script_progress pairs emitted
     parsed |-> <<>>,
     \* the rest of handle_start_script: "none", "pending", or done: "first" when
     \* script_started came before every other event of the instance, else "late"
     started |-> "none",
     \* history: the key was in running_instances when the start request came
     dup |-> FALSE,
     \* history: how the launch went: "none", "not_found", "no_target",
     \* "spawn_failed" or "spawned"
     launch |-> "none"]

NoProc == [state |-> "none", code |-> 0, sigterm |-> FALSE, chrome |-> {}]

NoStopper ==
    [pc |-> "idle", script_type |-> "none", instance_number |-> 0,
     main_pid |-> 0, waitee |-> 0, chrome_pids |-> {},
     \* history: the entry read at lookup, the processes signalled, the entries
     \* removed, whether the process of that entry was still alive when
     \* wait(timeout=5) ended, and at the time of the request: whether the key
     \* was registered, the chrome children of its process
     looked |-> 0, signalled |-> {}, removed |-> {}, overdue |-> FALSE,
     present |-> FALSE, kids |-> {}, failed |-> {},
     \* history: what the handler has done, in order: "snapshot", "signal"
     \* (terminate), "kill", "children", "remove", "emit" (script_stopped)
     did |-> <<>>]

\* main() has not begun
NoWorker == [pc |-> "idle", outcome |-> "none", webhook |-> "none", exit_code |-> 0]

\* the server after its start, no request served yet
InitJobs ==
    /\ running_instances = <<>>
    /\ running_process = 0
    /\ current_script_type = "none"
    /\ runner = [r \in RunnerIds |-> NoRunner]
    /\ proc = [r \in RunnerIds |-> NoProc]
    /\ stopper = [h \in StopIds |-> NoStopper]
    /\ rlines = [r \in RunnerIds |-> <<>>]
    /\ outLog = [r \in RunnerIds |-> <<>>]
    /\ elog = [r \in RunnerIds |-> <<>>]
    /\ finished = [r \in RunnerIds |-> <<>>]
    /\ slog = [h \in StopIds |-> <<>>]

\* process_keyword_posts has not been called
NoCollector ==
    [pc |-> "idle", target_users |-> 0, posts |-> <<>>, post_index |-> 0,
     commenter_index |-> 0, collected_users |-> 0, printed |-> <<>>]

\* no account: nothing stored, no call of add_user_to_json
NoStore == [users |-> {}, adder |-> <<>>, returned_true |-> {}, failed |-> FALSE]

\* no argument vector is being built
NoLauncher == [pc |-> "idle", script_type |-> "none", settings |-> <<>>, args |-> <<>>]

\* the server serves requests: the module has been imported, which ran the
\* reaper once, and socketio.run has begun
Serving == [phase |-> "serving", sweeps |-> <<"startup">>, cleaned |-> FALSE]

Init ==
    /\ InitJobs
    /\ ptable = <<>>
    /\ killed = {}
    /\ worker = NoWorker
    /\ replies = <<>>
    /\ server = Serving
    /\ launcher = NoLauncher
    /\ collector = NoCollector
    /\ store = NoStore

KeyOf(r) == instance_key(runner[r].script_type, runner[r].instance_number)
StopKey(h) == instance_key(stopper[h].script_type, stopper[h].instance_number)

Registered == DOMAIN running_instances

\* del running_instances[key]
Without(key) == [k \in Registered \ {key} |-> running_instances[k]]

\* running_instances[key] = process
With(key, p) == [k \in Registered \cup {key} |-> IF k = key THEN p ELSE running_instances[k]]

\* if not running_instances: running_process = None; current_script_type = None
ClearedProcess(reg) == IF DOMAIN reg = {} THEN 0 ELSE running_process
ClearedType(reg) == IF DOMAIN reg = {} THEN "none" ELSE current_script_type

\* the event e is in the sequence of events log
Has(log, e) == \E i \in 1..Len(log) : log[i] = e

Emit(r, kinds) == elog' = [elog EXCEPT ![r] = @ \o kinds]

\* the next unused ScriptRunner / stop handler among slots
NextRunner(slots) == CHOOSE r \in slots : runner[r].pc = "idle" /\ \A q \in slots : q < r => runner[q].pc # "idle"
NextStopper(slots) == CHOOSE h \in slots : stopper[h].pc = "idle" /\ \A q \in slots : q < h => stopper[q].pc # "idle"

\* ------------------------------------------------------------------ start
\* handle_start_script up to thread.start(): validation of settings['model_id'],
\* then a ScriptRunner and its thread; no look at running_instances
StartRequest(slots, script_type, instance_number, has_model, has_target, target_users) ==
    /\ \E r \in slots : runner[r].pc = "idle"
    /\ LET r == NextRunner(slots) IN
         IF ~has_model
         THEN /\ runner' = [runner EXCEPT ![r] =
                    [NoRunner EXCEPT !.pc = "rejected", !.script_type = script_type,
                                     !.instance_number = instance_number]]
              /\ Emit(r, <<"error_sid">>)
         ELSE /\ runner' = [runner EXCEPT ![r] =
                    [NoRunner EXCEPT !.pc = "start", !.script_type = script_type,
                                     !.instance_number = instance_number,
                                     !.has_target = has_target,
                                     !.target_users = IF has_target THEN target_users ELSE 0,
                                     !.started = "pending",
                                     !.dup = (instance_key(script_type, instance_number)
                                                 \in Registered)]]
              /\ UNCHANGED elog
    /\ UNCHANGED <<running_instances, running_process, current_script_type, proc,
                   stopper, rlines, outLog, finished, slog>>
    /\ UNCHANGED aux

\* handle_start_script after thread.start(): current_script_type = script_type,
\* emit('script_started')
StartTail(r) ==
    /\ runner[r].started = "pending"
    /\ runner' = [runner EXCEPT ![r].started = IF elog[r] = <<>> THEN "first" ELSE "late"]
    /\ current_script_type' = runner[r].script_type
    /\ UNCHANGED <<running_instances, running_process, proc, stopper, rlines, outLog,
                   elog, finished, slog>>
    /\ UNCHANGED aux

\* ------------------------------------------------------------------ ScriptRunner.run
\* run() from its first line to subprocess.Popen: the probe of possible_paths,
\* the argument vector (settings['target_users'] raises KeyError when missing),
\* the spawn.  found and spawns are what the file system and the OS answer;
\* kids are the chrome processes the worker starts.
Launch(r, found, spawns, kids) ==
    /\ runner[r].pc = "start"
    /\ IF ~found
       THEN /\ runner' = [runner EXCEPT ![r].pc = "nf_check", ![r].launch = "not_found"]
            /\ Emit(r, <<"output", "stopped", "error_sid">>)
            /\ UNCHANGED proc
       ELSE IF ~runner[r].has_target
       THEN /\ runner' = [runner EXCEPT ![r].pc = "exc_check", ![r].launch = "no_target"]
            /\ UNCHANGED <<elog, proc>>
       ELSE IF ~spawns
       THEN /\ runner' = [runner EXCEPT ![r].pc = "exc_check", ![r].launch = "spawn_failed"]
            /\ Emit(r, <<"output">>)
            /\ UNCHANGED proc
       ELSE /\ runner' = [runner EXCEPT ![r].pc = "spawned", ![r].launch = "spawned"]
            /\ proc' = [proc EXCEPT ![r] =
                   [state |-> "alive", code |-> 0, sigterm |-> FALSE, chrome |-> kids]]
            /\ Emit(r, <<"output">>)
    /\ UNCHANGED <<running_instances, running_process, current_script_type, stopper,
                   rlines, outLog, finished, slog>>
    /\ UNCHANGED aux

\* script not found: if self.instance_key in running_instances
NotFoundCheck(r) ==
    /\ runner[r].pc = "nf_check"
    /\ runner' = [runner EXCEPT ![r].pc =
                     IF KeyOf(r) \in Registered THEN "nf_del" ELSE "done"]
    /\ UNCHANGED <<running_instances, running_process, current_script_type, proc,
                   stopper, rlines, outLog, elog, finished, slog>>
    /\ UNCHANGED aux

\* script not found: del running_instances[self.instance_key]; a KeyError goes
\* to run()'s except clause
NotFoundDel(r) ==
    /\ runner[r].pc = "nf_del"
    /\ IF KeyOf(r) \in Registered
       THEN /\ running_instances' = Without(KeyOf(r))
            /\ runner' = [runner EXCEPT ![r].pc = "done"]
       ELSE /\ runner' = [runner EXCEPT ![r].pc = "exc_check"]
            /\ UNCHANGED running_instances
    /\ UNCHANGED <<running_process, current_script_type, proc, stopper, rlines, outLog,
                   elog, finished, slog>>
    /\ UNCHANGED aux

\* running_instances[self.instance_key] = self.process, the legacy globals and
\* the script_output that announces the process
Register(r) ==
    /\ runner[r].pc = "spawned"
    /\ running_instances' = With(KeyOf(r), r)
    /\ running_process' = r
    /\ current_script_type' = runner[r].script_type
    /\ runner' = [runner EXCEPT ![r].pc = "loop"]
    /\ Emit(r, <<"output">>)
    /\ UNCHANGED <<proc, stopper, rlines, outLog, finished, slog>>
    /\ UNCHANGED aux

\* a read loop that forwards the line as it was read
ReadLineVerbatim(r, lines, limit) ==
    /\ runner[r].pc = "loop"
    /\ Len(rlines[r]) < limit
    /\ \E line \in lines :
         /\ rlines' = [rlines EXCEPT ![r] = Append(@, line)]
         /\ IF Strip(line) = <<>>
            THEN UNCHANGED <<outLog, elog>>
            ELSE /\ outLog' = [outLog EXCEPT ![r] = Append(@, line)]
                 /\ Emit(r, <<"output">>)
    /\ UNCHANGED <<running_instances, running_process, current_script_type, runner, proc,
                   stopper, finished, slog>>
    /\ UNCHANGED aux

\* one turn of the read loop on a line: strip, forward, parse
ReadLine(r, lines, limit) ==
    /\ runner[r].pc = "loop"
    /\ Len(rlines[r]) < limit
    /\ \E line \in lines :
         LET clean_line == Strip(line)
             i == progress_match(clean_line)
         IN /\ rlines' = [rlines EXCEPT ![r] = Append(@, line)]
            /\ IF clean_line = <<>>
               THEN UNCHANGED <<outLog, elog, runner>>
               ELSE /\ outLog' = [outLog EXCEPT ![r] = Append(@, clean_line)]
                    /\ IF i = 0
                       THEN /\ Emit(r, <<"output">>)
                            /\ UNCHANGED runner
                       ELSE IF IsFloat(clean_line[i].pct)
                       THEN /\ runner' = [runner EXCEPT
                                   ![r].collected_users = clean_line[i].n,
                                   ![r].parsed = Append(@,
                                       [username |-> clean_line[i].s,
                                        collected_users |-> clean_line[i].n,
                                        target_users |-> clean_line[i].m,
                                        progress |-> Float(clean_line[i].pct)])]
                            /\ Emit(r, <<"output", "user", "progress">>)
                       ELSE /\ runner' = [runner EXCEPT ![r].collected_users = clean_line[i].n]
                            /\ Emit(r, <<"output">>)
    /\ UNCHANGED <<running_instances, running_process, current_script_type, proc,
                   stopper, finished, slog>>
    /\ UNCHANGED aux

\* readline() returns '' and poll() is not None: break, then process.wait()
ReadEOF(r) ==
    /\ runner[r].pc = "loop"
    /\ proc[r].state = "exited"
    /\ runner' = [runner EXCEPT ![r].pc = "check", ![r].return_code = proc[r].code]
    /\ UNCHANGED <<running_instances, running_process, current_script_type, proc,
                   stopper, rlines, outLog, elog, finished, slog>>
    /\ UNCHANGED aux

\* readline() raises: break
ReadFail(r) ==
    /\ runner[r].pc = "loop"
    /\ runner' = [runner EXCEPT ![r].pc = "wait"]
    /\ UNCHANGED <<running_instances, running_process, current_script_type, proc,
                   stopper, rlines, outLog, elog, finished, slog>>
    /\ UNCHANGED aux

\* return_code = self.process.wait(), no timeout
Wait(r) ==
    /\ runner[r].pc = "wait"
    /\ proc[r].state = "exited"
    /\ runner' = [runner EXCEPT ![r].pc = "check", ![r].return_code = proc[r].code]
    /\ UNCHANGED <<running_instances, running_process, current_script_type, proc,
                   stopper, rlines, outLog, elog, finished, slog>>
    /\ UNCHANGED aux

\* a cleanup that leaves the entry in the registry
CheckKeyKeep(r) ==
    /\ runner[r].pc = "check"
    /\ runner' = [runner EXCEPT ![r].pc = "emit_stopped"]
    /\ UNCHANGED <<running_instances, running_process, current_script_type, proc,
                   stopper, rlines, outLog, elog, finished, slog>>
    /\ UNCHANGED aux

\* if self.instance_key in running_instances (and, when it is not, the clearing
\* of the legacy globals that follows)
CheckKey(r) ==
    /\ runner[r].pc = "check"
    /\ IF KeyOf(r) \in Registered
       THEN /\ runner' = [runner EXCEPT ![r].pc = "del"]
            /\ UNCHANGED <<running_process, current_script_type>>
       ELSE /\ runner' = [runner EXCEPT ![r].pc = "emit_stopped"]
            /\ running_process' = ClearedProcess(running_instances)
            /\ current_script_type' = ClearedType(running_instances)
    /\ UNCHANGED <<running_instances, proc, stopper, rlines, outLog, elog, finished, slog>>
    /\ UNCHANGED aux

\* del running_instances[self.instance_key], then the clearing of the legacy
\* globals; a KeyError goes to run()'s except clause
DelKey(r) ==
    /\ runner[r].pc = "del"
    /\ IF KeyOf(r) \in Registered
       THEN /\ running_instances' = Without(KeyOf(r))
            /\ running_process' = ClearedProcess(Without(KeyOf(r)))
            /\ current_script_type' = ClearedType(Without(KeyOf(r)))
            /\ runner' = [runner EXCEPT ![r].pc = "emit_stopped"]
       ELSE /\ runner' = [runner EXCEPT ![r].pc = "exc_check"]
            /\ UNCHANGED <<running_instances, running_process, current_script_type>>
    /\ UNCHANGED <<proc, stopper, rlines, outLog, elog, finished, slog>>
    /\ UNCHANGED aux

\* the final script_output and socketio.emit('script_stopped')
EmitStopped(r) ==
    /\ runner[r].pc = "emit_stopped"
    /\ runner' = [runner EXCEPT ![r].pc = "emit_finished"]
    /\ Emit(r, <<"output", "stopped">>)
    /\ UNCHANGED <<running_instances, running_process, current_script_type, proc,
                   stopper, rlines, outLog, finished, slog>>
    /\ UNCHANGED aux

\* socketio.emit('script_finished') and socketio.emit('script_unblocked')
EmitFinished(r) ==
    /\ runner[r].pc = "emit_finished"
    /\ runner' = [runner EXCEPT ![r].pc = "done"]
    /\ Emit(r, <<"finished">>)
    /\ finished' = [finished EXCEPT ![r] = Append(@,
           [success |-> (runner[r].return_code = 0),
            return_code |-> runner[r].return_code,
            collected_users |-> runner[r].collected_users])]
    /\ UNCHANGED <<running_instances, running_process, current_script_type, proc,
                   stopper, rlines, outLog, slog>>
    /\ UNCHANGED aux

\* except Exception: if self.instance_key in running_instances (and, when it is
\* not, the clearing of the legacy globals)
ExcCheck(r) ==
    /\ runner[r].pc = "exc_check"
    /\ IF KeyOf(r) \in Registered
       THEN /\ runner' = [runner EXCEPT ![r].pc = "exc_del"]
            /\ UNCHANGED <<running_process, current_script_type>>
       ELSE /\ runner' = [runner EXCEPT ![r].pc = "exc_emit"]
            /\ running_process' = ClearedProcess(running_instances)
            /\ current_script_type' = ClearedType(running_instances)
    /\ UNCHANGED <<running_instances, proc, stopper, rlines, outLog, elog, finished, slog>>
    /\ UNCHANGED aux

\* except Exception: del running_instances[self.instance_key]; a KeyError here
\* leaves run() and ends the thread
ExcDel(r) ==
    /\ runner[r].pc = "exc_del"
    /\ IF KeyOf(r) \in Registered
       THEN /\ running_instances' = Without(KeyOf(r))
            /\ running_process' = ClearedProcess(Without(KeyOf(r)))
            /\ current_script_type' = ClearedType(Without(KeyOf(r)))
            /\ runner' = [runner EXCEPT ![r].pc = "exc_emit"]
       ELSE /\ runner' = [runner EXCEPT ![r].pc = "crashed"]
            /\ UNCHANGED <<running_instances, running_process, current_script_type>>
    /\ UNCHANGED <<proc, stopper, rlines, outLog, elog, finished, slog>>
    /\ UNCHANGED aux

\* except Exception: script_output, script_stopped, script_error, script_unblocked
ExcEmit(r) ==
    /\ runner[r].pc = "exc_emit"
    /\ runner' = [runner EXCEPT ![r].pc = "done"]
    /\ Emit(r, <<"output", "stopped", "error">>)
    /\ UNCHANGED <<running_instances, running_process, current_script_type, proc,
                   stopper, rlines, outLog, finished, slog>>
    /\ UNCHANGED aux

\* ------------------------------------------------------------------ the child process
\* the child exits by itself (0 or 1), or dies of the SIGTERM it was sent (-15)
ProcExit(p, code) ==
    /\ proc[p].state = "alive"
    /\ code \in (IF proc[p].sigterm THEN {-15} ELSE {0, 1})
    /\ proc' = [proc EXCEPT ![p].state = "exited", ![p].code = code]
    /\ UNCHANGED <<running_instances, running_process, current_script_type, runner,
                   stopper, rlines, outLog, elog, finished, slog>>
    /\ UNCHANGED aux

\* ------------------------------------------------------------------ handle_stop_script
SEmit(h, kinds) == slog' = [slog EXCEPT ![h] = @ \o kinds]

\* a handler without the check of the key against the registry
StopRequestUnchecked(slots, script_type, instance_number) ==
    /\ \E h \in slots : stopper[h].pc = "idle"
    /\ stopper' = [stopper EXCEPT ![NextStopper(slots)] =
           [NoStopper EXCEPT !.pc = "lookup", !.script_type = script_type,
                             !.instance_number = instance_number,
                             !.present = (instance_key(script_type, instance_number)
                                             \in Registered)]]
    /\ UNCHANGED <<running_instances, running_process, current_script_type, runner, proc,
                   rlines, outLog, elog, finished, slog>>
    /\ UNCHANGED aux

\* the request arrives: if instance_key not in running_instances, emit
\* script_stopped to the requester and return
StopRequest(slots, script_type, instance_number) ==
    /\ \E h \in slots : stopper[h].pc = "idle"
    /\ LET h == NextStopper(slots)
           key == instance_key(script_type, instance_number)
       IN IF key \notin Registered
          THEN /\ stopper' = [stopper EXCEPT ![h] =
                     [NoStopper EXCEPT !.pc = "done", !.script_type = script_type,
                                       !.instance_number = instance_number]]
               /\ SEmit(h, <<"stopped">>)
          ELSE /\ stopper' = [stopper EXCEPT ![h] =
                     [NoStopper EXCEPT !.pc = "lookup", !.script_type = script_type,
                                       !.instance_number = instance_number,
                                       !.present = TRUE,
                                       !.kids = IF proc[running_instances[key]].state = "alive"
                                                THEN proc[running_instances[key]].chrome
                                                ELSE {}]]
               /\ UNCHANGED slog
    /\ UNCHANGED <<running_instances, running_process, current_script_type, runner, proc,
                   rlines, outLog, elog, finished>>
    /\ UNCHANGED aux

\* running_process = running_instances[instance_key]: a write of the global;
\* a KeyError goes to the handler's except clause
Lookup(h) ==
    /\ stopper[h].pc = "lookup"
    /\ IF StopKey(h) \in Registered
       THEN /\ running_process' = running_instances[StopKey(h)]
            /\ stopper' = [stopper EXCEPT ![h].pc = "snapshot",
                                          ![h].looked = running_instances[StopKey(h)]]
       ELSE /\ stopper' = [stopper EXCEPT ![h].pc = "exc_check"]
            /\ UNCHANGED running_process
    /\ UNCHANGED <<running_instances, current_script_type, runner, proc, rlines, outLog,
                   elog, finished, slog>>
    /\ UNCHANGED aux

\* STEP 1: if running_process is not None: main_pid = running_process.pid and
\* the chrome children of psutil.Process(main_pid).  seen are the children whose
\* inspection does not raise NoSuchProcess or AccessDenied; every child of a
\* job is a chrome process.
Snapshot(h, seen) ==
    /\ stopper[h].pc = "snapshot"
    /\ IF running_process = 0
       THEN stopper' = [stopper EXCEPT ![h].pc = "check"]
       ELSE stopper' = [stopper EXCEPT
                ![h].pc = "terminate",
                ![h].did = Append(@, "snapshot"),
                ![h].main_pid = running_process,
                ![h].chrome_pids =
                    IF proc[running_process].state = "alive"
                    THEN proc[running_process].chrome \cap seen ELSE {}]
    /\ UNCHANGED <<running_instances, running_process, current_script_type, runner, proc,
                   rlines, outLog, elog, finished, slog>>
    /\ UNCHANGED aux

\* STEP 2: running_process.terminate() and the start of running_process.wait(timeout=5);
\* on None the AttributeError is caught and the handler goes on to the children
Terminate(h) ==
    /\ stopper[h].pc = "terminate"
    /\ IF running_process = 0
       THEN /\ stopper' = [stopper EXCEPT ![h].pc = "children"]
            /\ UNCHANGED proc
       ELSE /\ stopper' = [stopper EXCEPT
                   ![h].pc = "wait",
                   ![h].did = Append(@, "signal"),
                   ![h].waitee = running_process,
                   ![h].signalled = IF proc[running_process].state = "alive"
                                    THEN @ \cup {running_process} ELSE @]
            /\ proc' = [proc EXCEPT ![running_process].sigterm =
                           @ \/ proc[running_process].state = "alive"]
    /\ UNCHANGED <<running_instances, running_process, current_script_type, runner,
                   rlines, outLog, elog, finished, slog>>
    /\ UNCHANGED aux

\* a wait without a timeout: it ends only when the process has exited
StopWaitForever(h) ==
    /\ stopper[h].pc = "wait"
    /\ proc[stopper[h].waitee].state = "exited"
    /\ stopper' = [stopper EXCEPT ![h].pc = "children", ![h].overdue = FALSE]
    /\ UNCHANGED <<running_instances, running_process, current_script_type, runner, proc,
                   rlines, outLog, elog, finished, slog>>
    /\ UNCHANGED aux

\* the end of wait(timeout=5): the process has exited, or TimeoutExpired
StopWait(h) ==
    /\ stopper[h].pc = "wait"
    /\ stopper' = [stopper EXCEPT
           ![h].pc = IF proc[stopper[h].waitee].state = "exited" THEN "children" ELSE "kill",
           ![h].overdue = (proc[stopper[h].looked].state = "alive")]
    /\ UNCHANGED <<running_instances, running_process, current_script_type, runner, proc,
                   rlines, outLog, elog, finished, slog>>
    /\ UNCHANGED aux

\* except subprocess.TimeoutExpired: running_process.kill()
Kill(h) ==
    /\ stopper[h].pc = "kill"
    /\ IF running_process = 0
       THEN /\ stopper' = [stopper EXCEPT ![h].pc = "children"]
            /\ UNCHANGED proc
       ELSE /\ stopper' = [stopper EXCEPT
                   ![h].pc = "children",
                   ![h].did = Append(@, "kill"),
                   ![h].signalled = IF proc[running_process].state = "alive"
                                    THEN @ \cup {running_process} ELSE @]
            /\ proc' = [proc EXCEPT ![running_process] =
                           IF @.state = "alive"
                           THEN [@ EXCEPT !.state = "exited", !.code = -9]
                           ELSE @]
    /\ UNCHANGED <<running_instances, running_process, current_script_type, runner,
                   rlines, outLog, elog, finished, slog>>
    /\ UNCHANGED aux

\* STEP 3: for pid in chrome_pids_to_kill: psutil.Process(pid).kill(), in the
\* order of the snapshot.  A child in gone has exited by itself and raises
\* NoSuchProcess, one in denied raises AccessDenied, both passed over by the
\* inner except; any other exception, raised at the first child above upto,
\* is caught by the outer 'except Exception' and ends the loop.  failed are
\* the children whose inspection or kill raised.
KillChildren(h, gone, denied, upto) ==
    /\ stopper[h].pc = "children"
    /\ LET tried == {c \in stopper[h].chrome_pids : c <= upto}
           rest == stopper[h].chrome_pids \ tried
           raised == {c \in rest : \A d \in rest : c <= d}
       IN stopper' = [stopper EXCEPT ![h].pc = "check",
                         ![h].did = Append(@, "children"),
                         ![h].failed = (tried \cap (gone \cup denied)) \cup raised]
    /\ proc' = IF stopper[h].main_pid = 0 THEN proc
               ELSE [proc EXCEPT ![stopper[h].main_pid].chrome =
                        @ \ {c \in stopper[h].chrome_pids :
                                c \in gone \/ (c \notin denied /\ c <= upto)}]
    /\ UNCHANGED <<running_instances, running_process, current_script_type, runner,
                   rlines, outLog, elog, finished, slog>>
    /\ UNCHANGED aux

\* if instance_key in running_instances (and, when it is not, the clearing of
\* the legacy globals)
StopCheck(h) ==
    /\ stopper[h].pc = "check"
    /\ IF StopKey(h) \in Registered
       THEN /\ stopper' = [stopper EXCEPT ![h].pc = "del"]
            /\ UNCHANGED <<running_process, current_script_type>>
       ELSE /\ stopper' = [stopper EXCEPT ![h].pc = "emit"]
            /\ running_process' = ClearedProcess(running_instances)
            /\ current_script_type' = ClearedType(running_instances)
    /\ UNCHANGED <<running_instances, runner, proc, rlines, outLog, elog, finished, slog>>
    /\ UNCHANGED aux

\* del running_instances[instance_key], then the clearing of the legacy
\* globals; a KeyError goes to the handler's except clause
StopDel(h) ==
    /\ stopper[h].pc = "del"
    /\ IF StopKey(h) \in Registered
       THEN /\ running_instances' = Without(StopKey(h))
            /\ running_process' = ClearedProcess(Without(StopKey(h)))
            /\ current_script_type' = ClearedType(Without(StopKey(h)))
            /\ stopper' = [stopper EXCEPT ![h].pc = "emit",
                              ![h].did = Append(@, "remove"),
                              ![h].removed = @ \cup {running_instances[StopKey(h)]}]
       ELSE /\ stopper' = [stopper EXCEPT ![h].pc = "exc_check"]
            /\ UNCHANGED <<running_instances, running_process, current_script_type>>
    /\ UNCHANGED <<runner, proc, rlines, outLog, elog, finished, slog>>
    /\ UNCHANGED aux

\* script_output, socketio.emit('script_stopped') with the instance number,
\* script_unblocked
StopEmit(h) ==
    /\ stopper[h].pc = "emit"
    /\ stopper' = [stopper EXCEPT ![h].pc = "done", ![h].did = Append(@, "emit")]
    /\ SEmit(h, <<"stopped">>)
    /\ Emit(stopper[h].looked, <<"stopped">>)
    /\ UNCHANGED <<running_instances, running_process, current_script_type, runner, proc,
                   rlines, outLog, finished>>
    /\ UNCHANGED aux

\* except Exception: if instance_key in running_instances (and, when it is
\* not, the clearing of the legacy globals)
StopExcCheck(h) ==
    /\ stopper[h].pc = "exc_check"
    /\ IF StopKey(h) \in Registered
       THEN /\ stopper' = [stopper EXCEPT ![h].pc = "exc_del"]
            /\ UNCHANGED <<running_process, current_script_type>>
       ELSE /\ stopper' = [stopper EXCEPT ![h].pc = "exc_emit"]
            /\ running_process' = ClearedProcess(running_instances)
            /\ current_script_type' = ClearedType(running_instances)
    /\ UNCHANGED <<running_instances, runner, proc, rlines, outLog, elog, finished, slog>>
    /\ UNCHANGED aux

\* except Exception: del running_instances[instance_key]; a KeyError here
\* leaves the handler
StopExcDel(h) ==
    /\ stopper[h].pc = "exc_del"
    /\ IF StopKey(h) \in Registered
       THEN /\ running_instances' = Without(StopKey(h))
            /\ running_process' = ClearedProcess(Without(StopKey(h)))
            /\ current_script_type' = ClearedType(Without(StopKey(h)))
            /\ stopper' = [stopper EXCEPT ![h].pc = "exc_emit",
                              ![h].did = Append(@, "remove"),
                              ![h].removed = @ \cup {running_instances[StopKey(h)]}]
       ELSE /\ stopper' = [stopper EXCEPT ![h].pc = "crashed"]
            /\ UNCHANGED <<running_instances, running_process, current_script_type>>
    /\ UNCHANGED <<runner, proc, rlines, outLog, elog, finished, slog>>
    /\ UNCHANGED aux

\* except Exception: script_error, script_output, script_stopped without an
\* instance number, script_unblocked
StopExcEmit(h) ==
    /\ stopper[h].pc = "exc_emit"
    /\ stopper' = [stopper EXCEPT ![h].pc = "done", ![h].did = Append(@, "emit")]
    /\ SEmit(h, <<"error", "stopped_no_instance">>)
    /\ UNCHANGED <<running_instances, running_process, current_script_type, runner, proc,
                   rlines, outLog, elog, finished>>
    /\ UNCHANGED aux

\* ------------------------------------------------------------------ cleanup_orphaned_chrome
\* process_age > 60
OrphanMinAge == 60
\* is_recent = process_age < 86400
OrphanMaxAge == 86400

\* the variables of the job orchestration
jobvars == <<running_instances, running_process, current_script_type, runner, proc,
             stopper, rlines, outLog, elog, finished, slog>>

\* proc_info.get('name', '').lower() contains 'chrome', 'chromium' or
\* 'chromedriver', on the process names the model uses ("" is a name psutil
\* could not read)
chrome_name(name) ==
    CASE name = "chrome" -> TRUE
      [] name = "Chromium" -> TRUE
      [] name = "chromedriver" -> TRUE
      [] OTHER -> FALSE

\* an automation indicator is in the argument, lowered, on the arguments the
\* model uses
has_indicator(arg) ==
    CASE arg = "--no-sandbox" -> TRUE
      [] arg = "--Test-Type" -> TRUE
      [] arg = "--user-data-dir=/tmp/undetected-chromedriver" -> TRUE
      [] OTHER -> FALSE

\* has_automation = any(indicator in cmdline_str for indicator in automation_indicators)
has_automation(cmdline) == \E i \in 1..Len(cmdline) : has_indicator(cmdline[i])

\* a reaper whose age test lets a process of exactly one minute through
reaps_at_minute(info) ==
    /\ chrome_name(info.name)
    /\ info.cmdline # <<>>
    /\ has_automation(info.cmdline)
    /\ info.age < OrphanMaxAge /\ info.age >= OrphanMinAge
    /\ info.raises # "parent"
    /\ ~info.has_parent
    /\ info.raises # "kill"

\* one turn of the loop over psutil.process_iter ends in proc.kill() taking effect
reaps(info) ==
    /\ chrome_name(info.name)
    /\ info.cmdline # <<>>
    /\ has_automation(info.cmdline)
    /\ info.age < OrphanMaxAge /\ info.age > OrphanMinAge
    /\ info.raises # "parent"
    /\ ~info.has_parent
    /\ info.raises # "kill"

\* what psutil tells of one process: its name, command line, age in seconds
\* (current_time - create_time), whether it has a parent, and which call on it
\* raises NoSuchProcess or AccessDenied
ProcessInfos ==
    [name : {"chrome", "Chromium", "python", ""},
     cmdline : { <<>>, <<"chrome">>, <<"chrome", "--no-sandbox">>,
                 <<"chrome", "--Test-Type", "--headless">> },
     age : {OrphanMinAge, OrphanMinAge + 1, OrphanMaxAge - 1, OrphanMaxAge},
     has_parent : BOOLEAN,
     raises : {"none", "parent", "kill"},
     seen : {FALSE}]

\* a sweep that a failure on one process ends: the processes after it in the
\* table are never examined
ReapAborting(i) ==
    /\ i \in 1..Len(ptable)
    /\ ~ptable[i].seen
    /\ \A j \in 1..(i - 1) : ptable[j].seen
    /\ ptable' = IF ptable[i].raises = "none"
                 THEN [ptable EXCEPT ![i].seen = TRUE]
                 ELSE [j \in DOMAIN ptable |-> [ptable[j] EXCEPT !.seen = TRUE]]
    /\ killed' = IF reaps(ptable[i]) THEN killed \cup {i} ELSE killed
    /\ UNCHANGED <<jobvars, worker, replies, server, launcher, scriptvars>>

\* one turn of the loop of cleanup_orphaned_chrome, on the next process
Reap(i) ==
    /\ i \in 1..Len(ptable)
    /\ ~ptable[i].seen
    /\ \A j \in 1..(i - 1) : ptable[j].seen
    /\ ptable' = [ptable EXCEPT ![i].seen = TRUE]
    /\ killed' = IF reaps(ptable[i]) THEN killed \cup {i} ELSE killed
    /\ UNCHANGED <<jobvars, worker, replies, server, launcher, scriptvars>>

\* ------------------------------------------------------------------ keywordSearch.py main()
\* The exit code of the worker process: main() calls sys.exit nowhere and
\* catches every exception, so the interpreter exits with 0 unless an exception
\* leaves main(), which happens when the post to the webhook raises inside the
\* last handler (log_error with critical=True posts to the webhook).
worker_exit_code(outcome, webhook) == IF webhook = "raises" THEN 1 ELSE 0

\* config = ScriptConfig(args): a ValueError goes to 'except ValueError'.
\* webhook is what get_discord_webhook and requests.post do in this run: no
\* webhook configured, a post that succeeds, a post that raises.
WorkerConfig(p, config_ok, webhook) ==
    /\ worker.pc = "idle"
    /\ proc[p].state = "alive" /\ runner[p].script_type = "keyword"
    /\ worker' = IF config_ok
                 THEN [worker EXCEPT !.pc = "login", !.webhook = webhook]
                 ELSE [pc |-> "exited", outcome |-> "configuration_error",
                       webhook |-> webhook,
                       exit_code |-> worker_exit_code("configuration_error", webhook)]
    /\ UNCHANGED <<jobvars, ptable, killed, replies, server, launcher, scriptvars>>

\* if not login_to_maloum(driver, config): log_error("Login failed", critical=True); return
WorkerLogin(login_ok) ==
    /\ worker.pc = "login"
    /\ worker' = IF login_ok
                 THEN [worker EXCEPT !.pc = "collect"]
                 ELSE [worker EXCEPT !.pc = "exited", !.outcome = "login_failed",
                          !.exit_code = worker_exit_code("login_failed", worker.webhook)]
    /\ UNCHANGED <<jobvars, ptable, killed, replies, server, launcher, scriptvars>>

\* the collection loop to the final summary, or an exception in it caught by
\* 'except Exception', then the finally clause and the end of main()
WorkerCollect(crashes) ==
    /\ worker.pc = "collect"
    /\ LET outcome == IF crashes THEN "crashed" ELSE "success"
       IN worker' = [worker EXCEPT !.pc = "exited", !.outcome = outcome,
                        !.exit_code = worker_exit_code(outcome, worker.webhook)]
    /\ UNCHANGED <<jobvars, ptable, killed, replies, server, launcher, scriptvars>>

\* ------------------------------------------------------------------ the argument vector
\* the keys a settings bag may lack; model_id is there always, handle_start_script
\* refuses a request without it
OptionalKeys == {"target_users", "posts_per_filter", "posts_per_keyword", "headless"}

\* the settings bag with model_id and the keys D: target_users t, headless h
Bag(D, t, h) ==
    [key \in D \cup {"model_id"} |->
        CASE key = "model_id" -> "model-7"
          [] key = "target_users" -> t
          [] key = "posts_per_filter" -> 7
          [] key = "posts_per_keyword" -> 9
          [] key = "headless" -> h]

SettingsBags ==
    UNION { {Bag(D, t, h) : t \in TargetCounts, h \in BOOLEAN} : D \in SUBSET OptionalKeys }

\* str(n) on the integers the model uses
Str(n) ==
    CASE n = 0 -> "0"
      [] n = 1 -> "1"
      [] n = 2 -> "2"
      [] n = 3 -> "3"
      [] n = 7 -> "7"
      [] n = 9 -> "9"
      [] n = 50 -> "50"
      [] n = 100 -> "100"

\* settings.get(key, default)
Get(settings, key, default) == IF key \in DOMAIN settings THEN settings[key] ELSE default

\* a launcher that gives every job the knob of the discovery job
launch_args_one_knob(script_type, settings) ==
    <<"python3", "script_path", "--model-id", settings["model_id"],
      "--target-users", Str(settings["target_users"]),
      "--posts-per-filter", Str(Get(settings, "posts_per_filter", 100))>>
    \o (IF Get(settings, "headless", FALSE) THEN <<"--headless">> ELSE <<>>)
    \o <<"--gui">>

\* args of ScriptRunner.run, for settings that hold target_users
launch_args(script_type, settings) ==
    <<"python3", "script_path", "--model-id", settings["model_id"],
      "--target-users", Str(settings["target_users"])>>
    \o (CASE script_type = "discovery" ->
                <<"--posts-per-filter", Str(Get(settings, "posts_per_filter", 100))>>
           [] script_type = "keyword" ->
                <<"--posts-per-keyword", Str(Get(settings, "posts_per_keyword", 50))>>
           [] OTHER -> <<>>)
    \o (IF Get(settings, "headless", FALSE) THEN <<"--headless">> ELSE <<>>)
    \o <<"--gui">>

\* ScriptRunner.run from the script found to the args built;
\* self.settings['target_users'] raises KeyError when the key is not there
BuildArgs ==
    /\ launcher.pc = "idle"
    /\ launcher.script_type # "none"
    /\ launcher' =
          IF "target_users" \in DOMAIN launcher.settings
          THEN [launcher EXCEPT !.pc = "built",
                   !.args = launch_args(launcher.script_type, launcher.settings)]
          ELSE [launcher EXCEPT !.pc = "failed"]
    /\ UNCHANGED <<jobvars, ptable, killed, worker, replies, server, scriptvars>>

\* ------------------------------------------------------------------ keywordSearch.py process_keyword_posts
\* the commenters of one post, in order: one the worker has not met ("new") or
\* one in collected_users, visited_usernames or existing_users ("known")
Posts ==
    UNION { [1..n -> {"new", "known"}] : n \in 0..MaxCommenters }

\* while len(collected_users) < config.target_users and post_index <
\* max_posts_per_keyword: open the comment section of the next post, else
\* return
NextPost ==
    /\ collector.pc = "posts"
    /\ collector' =
          IF collector.collected_users < collector.target_users
                /\ collector.post_index < Len(collector.posts)
          THEN [collector EXCEPT !.pc = "commenters", !.commenter_index = 0]
          ELSE [collector EXCEPT !.pc = "done"]
    /\ UNCHANGED <<jobvars, ptable, killed, worker, replies, server, launcher, store>>

\* one turn of 'while True' over the commenters of the open post: past the
\* last one, back to the posts (or out, when the target is reached); a known
\* username is passed over; else the profile is visited, which may raise
\* (fails), and the user is collected and the progress line printed
VisitCommenter(fails) ==
    /\ collector.pc = "commenters"
    /\ LET post == collector.posts[collector.post_index + 1]
           n == collector.collected_users + 1
       IN collector' =
            IF collector.commenter_index >= Len(post)
            THEN [collector EXCEPT
                     !.pc = IF collector.collected_users >= collector.target_users
                            THEN "done" ELSE "posts",
                     !.post_index = @ + 1]
            ELSE IF post[collector.commenter_index + 1] = "known" \/ fails
            THEN [collector EXCEPT !.commenter_index = @ + 1]
            ELSE [collector EXCEPT
                     !.commenter_index = @ + 1,
                     !.collected_users = n,
                     !.printed = Append(@, [n |-> n, m |-> collector.target_users])]
    /\ UNCHANGED <<jobvars, ptable, killed, worker, replies, server, launcher, store>>

\* ------------------------------------------------------------------ keywordSearch.py add_user_to_json
WorkerIds == 1..MaxWorkers
Usernames == {"ann", "bob", "cy"}

\* a worker outside add_user_to_json
NoAdder ==
    [pc |-> "idle", username |-> "", existing_users |-> {}, load_failed |-> FALSE,
     calls |-> 0]

\* add_user_to_json(username, email) is called by worker w
add_user_to_json(w, username) ==
    /\ store.adder[w].pc = "idle"
    /\ store.adder[w].calls < MaxAdds
    /\ store' = [store EXCEPT !.adder[w] =
                    [@ EXCEPT !.pc = "load", !.username = username, !.calls = @ + 1,
                              !.existing_users = {}, !.load_failed = FALSE]]
    /\ UNCHANGED <<jobvars, ptable, killed, worker, replies, server, launcher, collector>>

\* existing_users = load_existing_users(email): the stored list, or the empty
\* set when the read of Supabase fails (fails); then 'if username not in
\* existing_users: existing_users.add(username)', else return False
load_existing_users(w, fails) ==
    /\ store.adder[w].pc = "load"
    /\ LET existing_users == IF fails THEN {} ELSE store.users
       IN store' =
            IF store.adder[w].username \notin existing_users
            THEN [store EXCEPT
                     !.adder[w].pc = "save",
                     !.adder[w].existing_users = existing_users \cup {store.adder[w].username},
                     !.adder[w].load_failed = fails,
                     !.failed = @ \/ fails]
            ELSE [store EXCEPT !.adder[w].pc = "idle"]
    /\ UNCHANGED <<jobvars, ptable, killed, worker, replies, server, launcher, collector>>

\* save_users_to_json(existing_users, email): the upsert of the whole list
\* under the account's email, or nothing when it fails (fails), the error
\* logged; then return True
save_users_to_json(w, fails) ==
    /\ store.adder[w].pc = "save"
    /\ store' = [store EXCEPT
                    !.users = IF fails THEN @ ELSE store.adder[w].existing_users,
                    !.returned_true = @ \cup {store.adder[w].username},
                    !.failed = @ \/ fails,
                    !.adder[w].pc = "idle"]
    /\ UNCHANGED <<jobvars, ptable, killed, worker, replies, server, launcher, collector>>

\* ------------------------------------------------------------------ get_script_status
\* the answer of GET /api/script_status: running with the type and the pid of
\* the legacy single slot when both globals are set and running_process.poll()
\* is None, else not running
script_status ==
    IF running_process # 0 /\ current_script_type # "none"
          /\ proc[running_process].state = "alive"
    THEN [running |-> TRUE, script_type |-> current_script_type, pid |-> running_process]
    ELSE [running |-> FALSE, script_type |-> "none", pid |-> 0]

\* get_script_status: the answer, and the clearing of the globals when the
\* process of the single slot has exited
get_script_status ==
    /\ Len(replies) < MaxReplies
    /\ replies' = Append(replies, script_status)
    /\ IF running_process # 0 /\ current_script_type # "none"
          /\ proc[running_process].state # "alive"
       THEN running_process' = 0 /\ current_script_type' = "none"
       ELSE UNCHANGED <<running_process, current_script_type>>
    /\ UNCHANGED <<running_instances, runner, proc, stopper, rlines, outLog, elog,
                   finished, slog, ptable, killed, worker, server, launcher, scriptvars>>

\* ------------------------------------------------------------------ the server process
\* the module is being imported: nothing has run yet
Importing == [phase |-> "import", sweeps |-> <<>>, cleaned |-> FALSE]

\* every process of the table has had its turn in the reaper's loop
SweepOver == \A i \in 1..Len(ptable) : ptable[i].seen

\* cleanup_orphaned_chrome() at import, before any handler is defined: the
\* sweep begins
StartupSweep ==
    /\ server.phase = "import"
    /\ server' = [server EXCEPT !.phase = "startup_sweep", !.sweeps = Append(@, "startup")]
    /\ UNCHANGED <<jobvars, ptable, killed, worker, replies, launcher, scriptvars>>

\* __main__: socketio.run(app, ...) once the import is over
Serve ==
    /\ server.phase = "startup_sweep"
    /\ SweepOver
    /\ server' = [server EXCEPT !.phase = "serving"]
    /\ UNCHANGED <<jobvars, ptable, killed, worker, replies, launcher, scriptvars>>

\* KeyboardInterrupt leaves socketio.run; the interpreter goes on to its
\* atexit handlers while the daemon threads of the jobs still run
Interrupt ==
    /\ server.phase = "serving"
    /\ server' = [server EXCEPT !.phase = "atexit"]
    /\ UNCHANGED <<jobvars, ptable, killed, worker, replies, launcher, scriptvars>>

\* cleanup_processes, registered with atexit: running_process.terminate() and
\* wait(timeout=5), kill() when that raises, the globals cleared; then
\* cleanup_orphaned_chrome() over the processes that are left.  reacts: the
\* process exits on the terminate signal within the timeout.
cleanup_processes(reacts) ==
    /\ server.phase = "atexit"
    /\ IF running_process # 0
       THEN /\ proc' = [proc EXCEPT ![running_process] =
                           IF @.state = "alive"
                           THEN [@ EXCEPT !.state = "exited",
                                          !.code = IF reacts THEN -15 ELSE -9,
                                          !.sigterm = TRUE]
                           ELSE @]
            /\ running_process' = 0
            /\ current_script_type' = "none"
       ELSE UNCHANGED <<proc, running_process, current_script_type>>
    /\ ptable' = [i \in DOMAIN ptable |-> [ptable[i] EXCEPT !.seen = (i \in killed)]]
    /\ server' = [server EXCEPT !.phase = "shutdown_sweep",
                                !.sweeps = Append(@, "shutdown"), !.cleaned = TRUE]
    /\ UNCHANGED <<running_instances, runner, stopper, rlines, outLog, elog, finished,
                   slog, killed, worker, replies, launcher, scriptvars>>

\* the last atexit handler has returned: the process is gone
Exit ==
    /\ server.phase = "shutdown_sweep"
    /\ SweepOver
    /\ server' = [server EXCEPT !.phase = "exited"]
    /\ UNCHANGED <<jobvars, ptable, killed, worker, replies, launcher, scriptvars>>

\* restart_application's shutdown_current thread: os.kill(os.getpid(),
\* signal.SIGTERM) with no handler installed, or os._exit(0): the process ends
\* and no atexit handler runs
restart_application ==
    /\ server.phase = "serving"
    /\ server' = [server EXCEPT !.phase = "exited"]
    /\ UNCHANGED <<jobvars, ptable, killed, worker, replies, launcher, scriptvars>>

\* ------------------------------------------------------------------ specifications
\* the steps of one ScriptRunner.run thread after its launch (NotFoundDel and
\* ExcDel need a second job of the same key)
ReaderStep(r) ==
    \/ NotFoundCheck(r)
    \/ Register(r)
    \/ ReadEOF(r)
    \/ ReadFail(r)
    \/ Wait(r)
    \/ CheckKey(r)
    \/ DelKey(r)
    \/ EmitStopped(r)
    \/ EmitFinished(r)
    \/ ExcCheck(r)
    \/ ExcEmit(r)

\* the steps of one handle_stop_script thread after the request (StopExcDel
\* needs a second job of the same key)
StopStep(h) ==
    \/ Lookup(h)
    \/ \E seen \in SUBSET ChildIds : Snapshot(h, seen)
    \/ Terminate(h)
    \/ StopWait(h)
    \/ Kill(h)
    \/ \E gone, denied \in SUBSET ChildIds, upto \in 0..MaxChildren :
           KillChildren(h, gone, denied, upto)
    \/ StopCheck(h)
    \/ StopDel(h)
    \/ StopEmit(h)
    \/ StopExcCheck(h)
    \/ StopExcEmit(h)

\* One job and one stop request: every setting, every launch outcome, every
\* line of CoreLines, chrome children, every outcome of their inspection.
Next ==
    \/ \E script_type \in ScriptTypes, instance_number \in InstanceNumbers,
          has_model, has_target \in BOOLEAN :
           StartRequest({1}, script_type, instance_number, has_model, has_target, 1)
    \/ \E script_type \in ScriptTypes, instance_number \in InstanceNumbers :
           StopRequest({1}, script_type, instance_number)
    \/ \E r \in RunnerIds : StartTail(r)
    \/ \E r \in RunnerIds, found, spawns \in BOOLEAN : Launch(r, found, spawns, ChildIds)
    \/ \E r \in RunnerIds : ReadLine(r, CoreLines, MaxLines)
    \/ \E r \in RunnerIds : ReaderStep(r)
    \/ \E h \in StopIds : StopStep(h)
    \/ \E p \in RunnerIds, code \in {0, 1, -15} : ProcExit(p, code)

Spec == Init /\ [][Next]_vars

\* The same under the scheduling of threads: a thread that can take a step
\* takes one.
FairSpec ==
    /\ Spec
    /\ \A r \in RunnerIds : WF_vars(ReaderStep(r))
    /\ \A h \in StopIds : WF_vars(StopStep(h))

\* Two jobs of any keys and no stop request: every setting, every launch
\* outcome, every line of CoreLines.
NextDup ==
    \/ \E script_type \in ScriptTypes, instance_number \in InstanceNumbers,
          has_model, has_target \in BOOLEAN :
           StartRequest(RunnerIds, script_type, instance_number, has_model, has_target, 1)
    \/ \E r \in RunnerIds : StartTail(r)
    \/ \E r \in RunnerIds, found, spawns \in BOOLEAN : Launch(r, found, spawns, ChildIds)
    \/ \E r \in RunnerIds : ReadLine(r, CoreLines, MaxLines)
    \/ \E r \in RunnerIds : ReaderStep(r)
    \/ \E r \in RunnerIds : NotFoundDel(r)
    \/ \E r \in RunnerIds : ExcDel(r)
    \/ \E p \in RunnerIds, code \in {0, 1} : ProcExit(p, code)

SpecDup == Init /\ [][NextDup]_vars

\* Two jobs and one stop request: discovery-1, keyword-1 and a stop of
\* discovery-1; every launch succeeds, the children write no line and the
\* inspection of chrome children raises nothing.
NextTwo ==
    \/ StartRequest({1}, "discovery", 1, TRUE, TRUE, 1)
    \/ StartRequest({2}, "keyword", 1, TRUE, TRUE, 1)
    \/ StopRequest({1}, "discovery", 1)
    \/ \E r \in RunnerIds : StartTail(r)
    \/ \E r \in RunnerIds : Launch(r, TRUE, TRUE, ChildIds)
    \/ \E r \in RunnerIds :
        \/ Register(r)
        \/ ReadEOF(r)
        \/ CheckKey(r)
        \/ DelKey(r)
        \/ EmitStopped(r)
        \/ EmitFinished(r)
        \/ ExcCheck(r)
        \/ ExcEmit(r)
    \/ \E h \in StopIds :
        \/ Lookup(h)
        \/ Snapshot(h, ChildIds)
        \/ Terminate(h)
        \/ StopWait(h)
        \/ Kill(h)
        \/ KillChildren(h, {}, {}, MaxChildren)
        \/ StopCheck(h)
        \/ StopDel(h)
        \/ StopEmit(h)
        \/ StopExcCheck(h)
        \/ StopExcEmit(h)
    \/ \E p \in RunnerIds, code \in {0, 1, -15} : ProcExit(p, code)

SpecTwo == Init /\ [][NextTwo]_vars

\* Two jobs, discovery-1 and keyword-1, and the status query: every launch
\* succeeds, the children write no line, no stop request.
NextStatus ==
    \/ StartRequest({1}, "discovery", 1, TRUE, TRUE, 1)
    \/ StartRequest({2}, "keyword", 1, TRUE, TRUE, 1)
    \/ \E r \in RunnerIds : StartTail(r)
    \/ \E r \in RunnerIds : Launch(r, TRUE, TRUE, {})
    \/ \E r \in RunnerIds :
        \/ Register(r)
        \/ ReadEOF(r)
        \/ ReadFail(r)
        \/ Wait(r)
        \/ CheckKey(r)
        \/ DelKey(r)
        \/ EmitStopped(r)
        \/ EmitFinished(r)
    \/ \E p \in RunnerIds, code \in {0, 1} : ProcExit(p, code)
    \/ get_script_status

SpecStatus == Init /\ [][NextStatus]_vars

\* The life of the server process with two jobs, discovery-1 and keyword-1:
\* the import with the reaper's sweep over a table of chrome processes, the
\* serving of start requests, and the end by KeyboardInterrupt or by restart.
LifeInfos ==
    {info \in ProcessInfos :
        /\ info.name = "chrome" /\ info.cmdline = <<"chrome", "--no-sandbox">>
        /\ info.age = OrphanMinAge + 1 /\ info.raises = "none"}

InitLife ==
    /\ InitJobs
    /\ ptable \in [1..MaxProcs -> LifeInfos]
    /\ killed = {}
    /\ worker = NoWorker
    /\ replies = <<>>
    /\ server = Importing
    /\ launcher = NoLauncher
    /\ collector = NoCollector
    /\ store = NoStore

NextLife ==
    \/ StartupSweep
    \/ Serve
    \/ Interrupt
    \/ \E reacts \in BOOLEAN : cleanup_processes(reacts)
    \/ Exit
    \/ restart_application
    \/ /\ server.phase \in {"startup_sweep", "shutdown_sweep"}
       /\ \E i \in 1..MaxProcs : Reap(i)
    \/ /\ server.phase = "serving"
       /\ \/ StartRequest({1}, "discovery", 1, TRUE, TRUE, 1)
          \/ StartRequest({2}, "keyword", 1, TRUE, TRUE, 1)
    \/ /\ server.phase \in {"serving", "atexit", "shutdown_sweep"}
       /\ \/ \E r \in RunnerIds : StartTail(r)
          \/ \E r \in RunnerIds : Launch(r, TRUE, TRUE, {})
          \/ \E r \in RunnerIds :
              \/ Register(r)
              \/ ReadEOF(r)
              \/ CheckKey(r)
              \/ DelKey(r)
              \/ EmitStopped(r)
              \/ EmitFinished(r)
          \/ \E p \in RunnerIds, code \in {0, 1} : ProcExit(p, code)

SpecLife == InitLife /\ [][NextLife]_vars

\* The building of the argument vector, on every job type and settings bag.
InitArgs ==
    /\ InitJobs
    /\ ptable = <<>>
    /\ killed = {}
    /\ worker = NoWorker
    /\ replies = <<>>
    /\ server = Serving
    /\ launcher \in [pc : {"idle"}, script_type : ScriptTypes, settings : SettingsBags,
                      args : {<<>>}]
    /\ collector = NoCollector
    /\ store = NoStore

NextArgs == BuildArgs

SpecArgs == InitArgs /\ [][NextArgs]_vars

\* A job discovery-1, a stop request for it, and a second start of discovery-1
\* that comes after the stop handler has removed the key from the registry:
\* every launch succeeds, no chrome children, the children write no line.
NextRestart ==
    \/ StartRequest({1}, "discovery", 1, TRUE, TRUE, 1)
    \/ /\ runner[1].pc # "idle"
       /\ stopper[1].removed # {}
       /\ instance_key("discovery", 1) \notin Registered
       /\ StartRequest({2}, "discovery", 1, TRUE, TRUE, 1)
    \/ StopRequest({1}, "discovery", 1)
    \/ \E r \in RunnerIds : StartTail(r)
    \/ \E r \in RunnerIds : Launch(r, TRUE, TRUE, {})
    \/ \E r \in RunnerIds :
        \/ Register(r)
        \/ ReadEOF(r)
        \/ CheckKey(r)
        \/ DelKey(r)
        \/ EmitStopped(r)
        \/ EmitFinished(r)
        \/ ExcCheck(r)
        \/ ExcDel(r)
        \/ ExcEmit(r)
    \/ \E h \in StopIds :
        \/ Lookup(h)
        \/ Snapshot(h, ChildIds)
        \/ Terminate(h)
        \/ StopWait(h)
        \/ Kill(h)
        \/ KillChildren(h, {}, {}, MaxChildren)
        \/ StopCheck(h)
        \/ StopDel(h)
        \/ StopEmit(h)
        \/ StopExcCheck(h)
        \/ StopExcEmit(h)
    \/ \E p \in RunnerIds, code \in {0, 1, -15} : ProcExit(p, code)

SpecRestart == Init /\ [][NextRestart]_vars

\* The collection of one keyword, on every target in 1..MaxTarget + 1 and every
\* MaxPosts posts of at most MaxCommenters commenters.
InitCollect ==
    /\ InitJobs
    /\ ptable = <<>>
    /\ killed = {}
    /\ worker = NoWorker
    /\ replies = <<>>
    /\ server = Serving
    /\ launcher = NoLauncher
    /\ store = NoStore
    /\ collector \in [pc : {"posts"}, target_users : 1..(MaxTarget + 1),
                       posts : [1..MaxPosts -> Posts], post_index : {0},
                       commenter_index : {0}, collected_users : {0}, printed : {<<>>}]

NextCollect ==
    \/ NextPost
    \/ \E fails \in BOOLEAN : VisitCommenter(fails)

SpecCollect == InitCollect /\ [][NextCollect]_vars

\* MaxWorkers workers of one account adding users, on every stored list.
InitStore ==
    /\ InitJobs
    /\ ptable = <<>>
    /\ killed = {}
    /\ worker = NoWorker
    /\ replies = <<>>
    /\ server = Serving
    /\ launcher = NoLauncher
    /\ collector = NoCollector
    /\ store \in [users : SUBSET Usernames, adder : {[w \in WorkerIds |-> NoAdder]},
                   returned_true : {{}}, failed : {FALSE}]

NextStore ==
    \/ \E w \in WorkerIds, username \in Usernames : add_user_to_json(w, username)
    \/ \E w \in WorkerIds, fails \in BOOLEAN : load_existing_users(w, fails)
    \/ \E w \in WorkerIds, fails \in BOOLEAN : save_users_to_json(w, fails)

SpecStore == InitStore /\ [][NextStore]_vars

\* One job, discovery-1, and two stop requests for it: the launch succeeds,
\* the child writes no line and the inspection of chrome children raises nothing.
NextStops ==
    \/ StartRequest({1}, "discovery", 1, TRUE, TRUE, 1)
    \/ StopRequest(StopIds, "discovery", 1)
    \/ \E r \in RunnerIds : StartTail(r)
    \/ \E r \in RunnerIds : Launch(r, TRUE, TRUE, ChildIds)
    \/ \E r \in RunnerIds :
        \/ Register(r)
        \/ ReadEOF(r)
        \/ CheckKey(r)
        \/ DelKey(r)
        \/ EmitStopped(r)
        \/ EmitFinished(r)
        \/ ExcCheck(r)
        \/ ExcEmit(r)
    \/ \E h \in StopIds :
        \/ Lookup(h)
        \/ Snapshot(h, ChildIds)
        \/ Terminate(h)
        \/ StopWait(h)
        \/ Kill(h)
        \/ KillChildren(h, {}, {}, MaxChildren)
        \/ StopCheck(h)
        \/ StopDel(h)
        \/ StopEmit(h)
        \/ StopExcCheck(h)
        \/ StopExcEmit(h)
    \/ \E p \in RunnerIds, code \in {0, 1, -15} : ProcExit(p, code)

SpecStops == Init /\ [][NextStops]_vars

\* One keyword job whose child process is keywordSearch.py, no stop request:
\* every outcome of the configuration, the login, the collection and the webhook.
NextWorker ==
    \/ StartRequest({1}, "keyword", 1, TRUE, TRUE, 1)
    \/ \E r \in RunnerIds : StartTail(r)
    \/ \E r \in RunnerIds : Launch(r, TRUE, TRUE, ChildIds)
    \/ \E r \in RunnerIds : ReadLine(r, CoreLines, MaxLines)
    \/ \E r \in RunnerIds :
        \/ Register(r)
        \/ ReadEOF(r)
        \/ CheckKey(r)
        \/ DelKey(r)
        \/ EmitStopped(r)
        \/ EmitFinished(r)
    \/ \E p \in RunnerIds, config_ok \in BOOLEAN, webhook \in {"none", "ok", "raises"} :
           WorkerConfig(p, config_ok, webhook)
    \/ \E login_ok \in BOOLEAN : WorkerLogin(login_ok)
    \/ \E crashes \in BOOLEAN : WorkerCollect(crashes)
    \/ \E p \in RunnerIds : worker.pc = "exited" /\ ProcExit(p, worker.exit_code)

SpecWorker == Init /\ [][NextWorker]_vars

\* One job and no stop request: the reader on every line of ReaderLines.
NextReader ==
    \/ \E script_type \in ScriptTypes, instance_number \in InstanceNumbers :
           StartRequest({1}, script_type, instance_number, TRUE, TRUE, 1)
    \/ \E r \in RunnerIds : StartTail(r)
    \/ \E r \in RunnerIds : Launch(r, TRUE, TRUE, ChildIds)
    \/ \E r \in RunnerIds : ReadLine(r, ReaderLines, MaxReaderLines)
    \/ \E r \in RunnerIds :
        \/ Register(r)
        \/ ReadEOF(r)
        \/ ReadFail(r)
        \/ Wait(r)
        \/ CheckKey(r)
        \/ DelKey(r)
        \/ EmitStopped(r)
        \/ EmitFinished(r)
    \/ \E p \in RunnerIds, code \in {0, 1} : ProcExit(p, code)

SpecReader == Init /\ [][NextReader]_vars

\* One job and no stop request: every setting, target_users included, every
\* launch outcome, every line of CoreLines.
NextStart ==
    \/ \E script_type \in ScriptTypes, instance_number \in InstanceNumbers,
          has_model, has_target \in BOOLEAN, target_users \in TargetCounts :
           StartRequest({1}, script_type, instance_number, has_model, has_target,
                        target_users)
    \/ \E r \in RunnerIds : StartTail(r)
    \/ \E r \in RunnerIds, found, spawns \in BOOLEAN : Launch(r, found, spawns, ChildIds)
    \/ \E r \in RunnerIds : ReadLine(r, CoreLines, MaxLines)
    \/ \E r \in RunnerIds : ReaderStep(r)
    \/ \E p \in RunnerIds, code \in {0, 1} : ProcExit(p, code)

SpecStart == Init /\ [][NextStart]_vars

\* The orphan reaper at the start of the server, on every table of MaxProcs
\* processes.
InitReaper ==
    /\ InitJobs
    /\ ptable \in [1..MaxProcs -> ProcessInfos]
    /\ killed = {}
    /\ worker = NoWorker
    /\ replies = <<>>
    /\ server = Serving
    /\ launcher = NoLauncher
    /\ collector = NoCollector
    /\ store = NoStore

NextReaper == \E i \in 1..MaxProcs : Reap(i)

SpecReaper == InitReaper /\ [][NextReaper]_vars

\* ------------------------------------------------------------------ claims
\* the thread of run() has ended
ReaderEnded(r) == runner[r].pc \in {"done", "crashed"}

\* a stop request for the key of runner r has come
StopRequested(r) ==
    \E h \in StopIds : stopper[h].pc # "idle" /\ StopKey(h) = KeyOf(r)

\* the registry holds the process of runner r
Holds(r) == KeyOf(r) \in Registered /\ running_instances[KeyOf(r)] = r

\* the n of the last line of lines that the progress pattern matches, 0 if none
RECURSIVE LastCollected(_)
LastCollected(lines) ==
    IF lines = <<>> THEN 0
    ELSE LET line == Strip(lines[Len(lines)])
             i == progress_match(line)
         IN IF i # 0 THEN line[i].n
            ELSE LastCollected(SubSeq(lines, 1, Len(lines) - 1))

\* C1: a start request for a key that is in the registry is rejected: it spawns
\* no child process and its process never becomes the registry entry; and no
\* two live child processes belong to one key.
C1_DuplicateStartRejected ==
    /\ \A r \in RunnerIds : runner[r].dup => proc[r].state = "none" /\ ~Holds(r)
    /\ \A r, q \in RunnerIds :
          (r # q /\ proc[r].state = "alive" /\ proc[q].state = "alive")
              => KeyOf(r) # KeyOf(q)

\* C2: once the reader of a job whose process exited with code 0, and that no
\* stop request named, has ended, the registry does not hold its process and
\* script_finished was emitted exactly once, with success and with the n of
\* the last progress line read.
C2_FinishedOnceOnSuccess ==
    \A r \in RunnerIds :
        (ReaderEnded(r) /\ proc[r].state = "exited" /\ proc[r].code = 0 /\ ~StopRequested(r))
            => /\ ~Holds(r)
               /\ finished[r] = << [success |-> TRUE, return_code |-> 0,
                                    collected_users |-> LastCollected(rlines[r])] >>

\* C3: once the reader of a job whose process exited by itself with a code c
\* other than 0 has ended, the registry does not hold its process and a
\* script_finished with success false and return code c was emitted; every
\* script_finished has success exactly when its return code is 0.
C3_FinishedOnFailure ==
    \A r \in RunnerIds :
        /\ (ReaderEnded(r) /\ proc[r].state = "exited" /\ runner[r].return_code > 0)
              => /\ ~Holds(r)
                 /\ \E i \in 1..Len(finished[r]) :
                       /\ finished[r][i].success = FALSE
                       /\ finished[r][i].return_code = runner[r].return_code
        /\ \A i \in 1..Len(finished[r]) :
              finished[r][i].success = (finished[r][i].return_code = 0)

\* C4: the step that ends a stop handler leaves the key of the request out of
\* the registry, with a script_stopped that names the instance emitted by the
\* handler.
C4_StopEndsRemovedAndStopped ==
    [][\A h \in StopIds :
          (stopper[h].pc # "done" /\ stopper'[h].pc = "done")
              => /\ instance_key(stopper'[h].script_type, stopper'[h].instance_number)
                        \notin DOMAIN running_instances'
                 /\ \E i \in 1..Len(slog'[h]) : slog'[h][i] = "stopped"]_vars

\* C5: the step that takes a stop request for a key that is not in the registry
\* ends the handler, leaves the registry, the legacy globals and every process
\* as they are, and emits one script_stopped and nothing else.
C5_StopAbsentIsNoOp ==
    [][\A h \in StopIds :
          (stopper[h].pc = "idle" /\ stopper'[h].pc # "idle" /\ ~stopper'[h].present)
              => /\ stopper'[h].pc = "done"
                 /\ running_instances' = running_instances
                 /\ running_process' = running_process
                 /\ proc' = proc
                 /\ slog'[h] = <<"stopped">>]_vars

\* C5 happens: a stop request for an absent key has been answered while the
\* process of another key is registered and alive.
C5_Witness ==
    \E h \in StopIds, r \in RunnerIds :
        /\ stopper[h].pc = "done" /\ ~stopper[h].present
        /\ slog[h] = <<"stopped">>
        /\ Holds(r) /\ proc[r].state = "alive"

\* C6: when a stop handler has ended whose key was registered with two chrome
\* children at the request and whose process was still alive when the wait of
\* five seconds ended, that process is dead, its two children are dead and the
\* registry does not hold it.
C6_ForceKillWithChildren ==
    \A h \in StopIds :
        (stopper[h].pc = "done" /\ stopper[h].present /\ stopper[h].overdue
           /\ Cardinality(stopper[h].kids) = 2)
            => /\ proc[stopper[h].looked].state = "exited"
               /\ proc[stopper[h].looked].chrome = {}
               /\ ~Holds(stopper[h].looked)

\* C7: a stop handler sends no signal to the process of a job of another key,
\* takes no chrome children of it and removes no entry of it.
C7_StopLeavesOtherKey ==
    \A h \in StopIds, r \in RunnerIds :
        (stopper[h].pc # "idle" /\ runner[r].pc # "idle" /\ KeyOf(r) # StopKey(h))
            => /\ r \notin stopper[h].signalled
               /\ r \notin stopper[h].removed
               /\ stopper[h].main_pid # r

\* C8: in the events of one instance, no script_output, user_collected,
\* script_progress, script_stopped or script_finished comes after a
\* script_stopped or a script_finished.
C8_TerminalEventIsLast ==
    \A r \in RunnerIds :
        \A i, j \in 1..Len(elog[r]) :
            (i < j /\ elog[r][i] \in {"stopped", "finished"})
                => elog[r][j] \notin {"output", "user", "progress", "stopped", "finished"}

\* the lines of lines that are not blank, as they were read
RECURSIVE NonBlank(_)
NonBlank(lines) ==
    IF lines = <<>> THEN <<>>
    ELSE IF \A i \in 1..Len(Head(lines)) : Head(lines)[i].t = "ws"
         THEN NonBlank(Tail(lines))
         ELSE <<Head(lines)>> \o NonBlank(Tail(lines))

\* a line without the whitespace at its two ends
Trimmed(line) ==
    LET ink == {i \in 1..Len(line) : line[i].t # "ws"}
    IN IF ink = {} THEN <<>>
       ELSE SubSeq(line, CHOOSE i \in ink : \A j \in ink : i <= j,
                         CHOOSE i \in ink : \A j \in ink : j <= i)

\* C9 as stated: the payloads the read loop forwarded are the non-blank lines it
\* read, each as it was read, in the order read.
C9_ForwardsVerbatim ==
    \A r \in RunnerIds : outLog[r] = NonBlank(rlines[r])

\* C9: the payloads the read loop forwarded are the non-blank lines it read,
\* each without the whitespace at its two ends, in the order read; a blank
\* line forwards nothing.
C9_ForwardsStripped ==
    \A r \in RunnerIds :
        /\ Len(outLog[r]) = Len(NonBlank(rlines[r]))
        /\ \A i \in 1..Len(outLog[r]) : outLog[r][i] = Trimmed(NonBlank(rlines[r])[i])

\* C9 happens: the reader has read a blank line and then a line with
\* whitespace at both ends, and has forwarded one payload.
C9_Witness ==
    \E r \in RunnerIds :
        /\ rlines[r] = << <<WS>>, <<WS, Word("Navigating"), WS>> >>
        /\ outLog[r] = << <<Word("Navigating")>> >>

\* C10: when the registry holds a process that has exited, the registry comes
\* not to hold it.
C10_DeadEntryEventuallyRemoved ==
    \A r \in RunnerIds : (Holds(r) /\ proc[r].state = "exited") ~> ~Holds(r)

\* C10 happens: the registry holds a process that has exited.
C10_Witness ==
    \E r \in RunnerIds : Holds(r) /\ proc[r].state = "exited"

\* the number of script_error events in log
ErrorCount(log) == Cardinality({i \in 1..Len(log) : log[i] \in {"error", "error_sid"}})

\* C11: the removals of one key by the reader of a spawned job and by a stop
\* handler that has looked it up raise nothing: no script_error is emitted for
\* the job and none by the handler.
C11_RemovalRaceRaisesNothing ==
    /\ \A r \in RunnerIds : runner[r].launch = "spawned" => ErrorCount(elog[r]) = 0
    /\ \A h \in StopIds : stopper[h].looked # 0 => ~Has(slog[h], "error")

\* C12: after a launch that failed because the script was not found or the
\* spawn failed, no step of that job changes the registry, and its
\* script_error goes to the requester alone.
C12_LaunchErrorLeavesRegistry ==
    [][\A r \in RunnerIds :
          (runner[r].launch \in {"not_found", "spawn_failed"}
             /\ runner'[r].pc # runner[r].pc)
              => /\ running_instances' = running_instances
                 /\ ~Has(elog'[r], "error")]_vars

\* C13: a job whose script was found at no candidate location has no child
\* process and no registry entry, and when its thread has ended exactly one
\* script_error was emitted for it.
C13_NotFoundAbortsOnce ==
    \A r \in RunnerIds :
        runner[r].launch = "not_found"
            => /\ proc[r].state = "none"
               /\ ~Holds(r)
               /\ ReaderEnded(r) => ErrorCount(elog[r]) = 1

\* C14: a start request without settings['target_users'], or with a count that
\* is not positive, spawns no child process and creates no registry entry, and
\* an error has been reported for it once its thread has ended.
C14_BadSettingsRejected ==
    \A r \in RunnerIds :
        (runner[r].pc \notin {"idle", "rejected"}
           /\ (~runner[r].has_target \/ runner[r].target_users <= 0))
            => /\ proc[r].state = "none"
               /\ ~Holds(r)
               /\ ReaderEnded(r) => ErrorCount(elog[r]) >= 1

\* the verb phrases of a progress line, in the letter cases the model uses
ProgressVerbs ==
    {"collected user", "Collected user", "new user found", "New user found", "NEW USER FOUND"}

\* the decimal numbers among the pct texts, with their values in tenths
PctValue == [pct \in {"14.0", "14", "50.0", "100.0"} |->
                IF pct \in {"14.0", "14"} THEN 140 ELSE IF pct = "50.0" THEN 500 ELSE 1000]

\* the segments of a line shaped "<verb>: <username> (<n>/<m> - <pct>%)" with a
\* progress verb and a decimal number for pct
ProgressSegs(line) ==
    {i \in 1..Len(line) : /\ line[i].t = "seg"
                          /\ line[i].verb \in ProgressVerbs
                          /\ line[i].pct \in DOMAIN PctValue}

\* the lines of lines that hold such a segment
RECURSIVE ProgressLines(_)
ProgressLines(lines) ==
    IF lines = <<>> THEN <<>>
    ELSE IF ProgressSegs(Head(lines)) = {} THEN ProgressLines(Tail(lines))
         ELSE <<Head(lines)>> \o ProgressLines(Tail(lines))

\* (username, n, m, pct) of a line that holds such a segment
ProgressOf(line) ==
    LET i == CHOOSE i \in ProgressSegs(line) : \A j \in ProgressSegs(line) : i <= j
    IN [username |-> line[i].s, collected_users |-> line[i].n,
        target_users |-> line[i].m, progress |-> PctValue[line[i].pct]]

\* the number of events e in log
Count(log, e) == Cardinality({i \in 1..Len(log) : log[i] = e})

Matched(line) == progress_match(Strip(line)) # 0

\* C16: for the lines read that the pattern matches, the reader emitted one
\* user_collected and one script_progress each, carrying the username, n, m
\* and pct of the line, and the collected count is the n of the last of them.
C16_MatchedLineEmitsProgress ==
    \A r \in RunnerIds :
        LET matched == SelectSeq(rlines[r], Matched)
        IN /\ Len(runner[r].parsed) = Len(matched)
           /\ Count(elog[r], "user") = Len(matched)
           /\ Count(elog[r], "progress") = Len(matched)
           /\ \A i \in 1..Len(runner[r].parsed) :
                 LET seg == Strip(matched[i])[progress_match(Strip(matched[i]))]
                 IN /\ runner[r].parsed[i].username = seg.s
                    /\ runner[r].parsed[i].collected_users = seg.n
                    /\ runner[r].parsed[i].target_users = seg.m
           /\ runner[r].collected_users = LastCollected(rlines[r])

\* C17: every process the reaper killed has a chrome name, an automation
\* indicator on its command line, no parent, and an age of more than 60 seconds
\* and less than 24 hours.
C17_ReaperKillsOnlyOrphans ==
    \A i \in killed :
        /\ ptable[i].name \in {"chrome", "Chromium", "chromedriver"}
        /\ \E k \in 1..Len(ptable[i].cmdline) :
              ptable[i].cmdline[k] \in {"--no-sandbox", "--Test-Type"}
        /\ ~ptable[i].has_parent
        /\ ptable[i].age > 60
        /\ ptable[i].age < 86400

\* C17 happens: the reaper has scanned an orphan of 61 seconds, which it
\* killed, and one of 60 seconds, which it left.
C17_Witness ==
    /\ killed = {1}
    /\ ptable[1].age = 61 /\ ptable[1].seen
    /\ ptable[2].age = 60 /\ ptable[2].seen /\ ~ptable[2].has_parent
    /\ ptable[2].name = "chrome" /\ ptable[2].cmdline = <<"chrome", "--no-sandbox">>
    /\ ptable[2].raises = "none"

\* C18: while the reader of the job is still in its read loop, so that stop
\* handlers alone have touched the registry, no stop handler has emitted
\* script_error; and when two stop handlers for a registered key have ended,
\* the key is out of the registry and the process that was registered is dead.
C18_StopIdempotent ==
    /\ (\A r \in RunnerIds : runner[r].pc \in {"idle", "start", "spawned", "loop"})
          => \A h \in StopIds : ~Has(slog[h], "error")
    /\ (\A h \in StopIds : stopper[h].pc = "done")
          => \A h \in StopIds :
                stopper[h].looked # 0
                    => /\ ~Holds(stopper[h].looked)
                       /\ proc[stopper[h].looked].state = "exited"

\* C19: when the keyword worker has exited, its exit code is 0 exactly when its
\* run succeeded, and a script_finished of its job reports success only for a
\* run that succeeded.
C19_WorkerExitCode ==
    /\ worker.pc = "exited" => (worker.exit_code = 0 <=> worker.outcome = "success")
    /\ \A r \in RunnerIds : \A i \in 1..Len(finished[r]) :
          finished[r][i].success => worker.outcome = "success"

\* the place of a step in the order of a stop operation
StepRank ==
    [step \in {"snapshot", "signal", "kill", "children", "remove", "emit"} |->
        CASE step = "snapshot" -> 1
          [] step = "signal" -> 2
          [] step = "kill" -> 3
          [] step = "children" -> 4
          [] step = "remove" -> 5
          [] step = "emit" -> 6]

\* C20: in what a stop handler has done, the snapshot of the chrome children
\* comes before every signal to the main process, the terminate and the kill
\* of the main process before the kills of the children, these before the
\* removal of the key, and the removal before script_stopped; and when the
\* handler is past the kills of the children it snapshotted, the main process
\* they belong to has been terminated: it is dead.
C20_StopStepsInOrder ==
    \A h \in StopIds :
        /\ \A i, j \in 1..Len(stopper[h].did) :
              i < j => StepRank[stopper[h].did[i]] < StepRank[stopper[h].did[j]]
        /\ (Has(stopper[h].did, "children") /\ stopper[h].chrome_pids # {})
              => proc[stopper[h].main_pid].state = "exited"

\* C21: during a stop, a failure while inspecting or killing one snapshotted
\* child is swallowed for that child only: once the child-kill step is over,
\* every snapshotted child other than the ones that failed has been killed
\* (the weaker half of the claim; the main process and the key are C4 and C11).
C21_ChildFailureIsLocal ==
    \A h \in StopIds :
        (Has(stopper[h].did, "children") /\ stopper[h].main_pid # 0
           /\ stopper[h].failed # {})
        => (stopper[h].chrome_pids \ stopper[h].failed)
              \cap proc[stopper[h].main_pid].chrome = {}


\* C22: a stop operation always terminates: under the scheduling of threads
\* every stop handler that has started comes to its end, and it leaves its one
\* bounded wait for the children step directly or through the force kill,
\* never back into a wait, whether or not the main process ever exits.
C22_StopTerminates ==
    /\ \A h \in StopIds : (stopper[h].pc # "idle") ~> (stopper[h].pc \in {"done", "crashed"})
    /\ [][\A h \in StopIds :
             /\ stopper[h].pc = "wait" => stopper'[h].pc \in {"wait", "children", "kill"}
             /\ stopper[h].pc \in {"kill", "children", "check", "del", "emit", "exc_check",
                                    "exc_del", "exc_emit", "done", "crashed"}
                  => stopper'[h].pc # "wait"]_vars

\* a stop that has ended after its wait ran out and it force-killed the process
C22_Witness ==
    \E h \in StopIds :
        stopper[h].pc = "done" /\ stopper[h].overdue /\ Has(stopper[h].did, "kill")


\* C23: if reading the output fails while the process is still alive, the
\* reader, having left its loop, goes on to remove the key from the registry
\* and to emit a terminal event, whether or not the process ever exits.
C23_ReadFailureStillCleansUp ==
    \A r \in RunnerIds :
        (runner[r].pc = "wait" /\ proc[r].state = "alive")
        ~> (KeyOf(r) \notin Registered
              /\ (Has(elog[r], "stopped") \/ Has(elog[r], "finished")))


\* C24: the reader obtains the exit code, removes the key, and only then
\* emits the terminal event: in every step in which a reader that has left its
\* loop emits script_stopped, the key of its instance is absent from the
\* registry (stated for jobs started while their key was not registered).
C24_TerminalEventAfterRemoval ==
    [][\A r \in RunnerIds :
         (/\ \A q \in RunnerIds : ~runner[q].dup
          /\ runner[r].pc = "emit_stopped" /\ runner'[r].pc = "emit_finished")
         => KeyOf(r) \notin Registered]_vars


\* the registry reg holds no key of the job type script_type
NoKeyOfType(reg, script_type) == \A k \in DOMAIN reg : k[1] # script_type

\* C25: when a reader's exit leaves the registry without a key of its job
\* type, the legacy single-slot state is cleared, even while the other job
\* type is registered; at the least current_script_type no longer names the
\* job type of the reader that has exited.
C25_LegacyStateClearedPerType ==
    [][\A r \in RunnerIds :
         (/\ runner[r].pc \in {"check", "del"} /\ runner'[r].pc = "emit_stopped"
          /\ NoKeyOfType(running_instances', runner[r].script_type))
         => current_script_type' # runner[r].script_type]_vars


\* no start, stop or exit is in progress: every reader is idle, ended, or in
\* its loop on a living process, and every stop handler is idle or ended
Quiescent ==
    /\ \A r \in RunnerIds :
          \/ runner[r].pc \in {"idle", "rejected", "done", "crashed"}
          \/ runner[r].pc = "loop" /\ proc[r].state = "alive"
    /\ \A h \in StopIds : stopper[h].pc \in {"idle", "done", "crashed"}

\* C26: the status query never drifts from the registry: asked while the
\* registry holds an instance whose process is alive and nothing is in
\* progress, it answers running = true; asked while the registry is empty, it
\* answers running = false.
C26_StatusFollowsRegistry ==
    [][Len(replies') = Len(replies) + 1 =>
         LET answer == replies'[Len(replies')]
         IN /\ (Quiescent /\ \E k \in Registered :
                               proc[running_instances[k]].state = "alive")
                  => answer.running
            /\ Registered = {} => ~answer.running]_vars


\* C27: the reaper's sweep runs once at startup, over before the first start
\* request is accepted, and once at shutdown: no job exists before the
\* startup sweep is over, and a server process that has ended has run the
\* startup sweep and then the shutdown sweep, each once.
C27_SweepOnceAtStartAndEnd ==
    /\ (\E r \in RunnerIds : runner[r].pc # "idle")
          => server.phase \notin {"import", "startup_sweep"}
    /\ server.phase = "exited" => server.sweeps = <<"startup", "shutdown">>


\* C29: at shutdown every process still registered as a running instance is
\* terminated, however many there are: when cleanup_processes has run, no
\* process that was in the registry is alive.
C29_ShutdownTerminatesAll ==
    [][(server.phase = "atexit" /\ server'.phase = "shutdown_sweep")
          => \A k \in Registered : proc'[running_instances[k]].state = "exited"]_vars


\* the process has a chrome name, an automation indicator, no parent and an
\* age between one minute and a day, and no call on it raises
KillCandidate(info) ==
    /\ info.name \in {"chrome", "Chromium", "chromedriver"}
    /\ \E k \in 1..Len(info.cmdline) : info.cmdline[k] \in {"--no-sandbox", "--Test-Type"}
    /\ ~info.has_parent
    /\ info.age > 60 /\ info.age < 86400
    /\ info.raises = "none"

\* C28: a failure to inspect or kill one process never ends the sweep: when
\* the sweep is over, every kill candidate of the table has been killed,
\* whatever the calls on the other processes raised.
C28_SweepSkipsFailures ==
    SweepOver => \A i \in 1..Len(ptable) : KillCandidate(ptable[i]) => i \in killed

\* a sweep whose first process could not be killed and whose second was killed
C28_Witness ==
    /\ SweepOver /\ Len(ptable) = 2
    /\ ptable[1].raises = "kill" /\ ~ptable[1].has_parent /\ ptable[1].age = 61
    /\ ptable[1].name = "chrome" /\ ptable[1].cmdline = <<"chrome", "--no-sandbox">>
    /\ KillCandidate(ptable[2])
    /\ killed = {2}


\* the decimal text of the targets 0, 1, 2, 3
TargetText == <<"0", "1", "2", "3">>

\* the argument value follows the option flag in args
Carries(args, flag, value) ==
    \E i \in 1..(Len(args) - 1) : args[i] = flag /\ args[i + 1] = value

\* C30: the argument vector carries --model-id with the model id,
\* --target-users with the target and --gui always; --posts-per-filter
\* (default 100) exactly for discovery and --posts-per-keyword (default 50)
\* exactly for keyword; --headless exactly when the headless setting is true.
C30_ArgsFollowSettings ==
    launcher.pc = "built" =>
        LET args == launcher.args
            settings == launcher.settings
        IN /\ Carries(args, "--model-id", "model-7")
           /\ Carries(args, "--target-users", TargetText[settings["target_users"] + 1])
           /\ Has(args, "--gui")
           /\ Has(args, "--posts-per-filter") <=> launcher.script_type = "discovery"
           /\ Has(args, "--posts-per-keyword") <=> launcher.script_type = "keyword"
           /\ launcher.script_type = "discovery" =>
                 Carries(args, "--posts-per-filter",
                         IF "posts_per_filter" \in DOMAIN settings THEN "7" ELSE "100")
           /\ launcher.script_type = "keyword" =>
                 Carries(args, "--posts-per-keyword",
                         IF "posts_per_keyword" \in DOMAIN settings THEN "9" ELSE "50")
           /\ Has(args, "--headless")
                 <=> ("headless" \in DOMAIN settings /\ settings["headless"] = TRUE)

\* the vector of a headless keyword job whose settings hold no knob
C30_Witness ==
    /\ launcher.pc = "built"
    /\ launcher.script_type = "keyword"
    /\ DOMAIN launcher.settings = {"model_id", "target_users", "headless"}
    /\ launcher.settings["headless"] = TRUE
    /\ launcher.args = <<"python3", "script_path", "--model-id", "model-7",
                         "--target-users", "1", "--posts-per-keyword", "50",
                         "--headless", "--gui">>


\* C31: no live job process is untracked: every process that a start request
\* spawned, whose thread has got past its registration and that has not
\* exited, is the process the registry holds under its instance key.
C31_LiveProcessIsRegistered ==
    \A r \in RunnerIds :
        (proc[r].state = "alive" /\ runner[r].pc \notin {"idle", "start", "spawned"})
        => Holds(r)


\* C32: a reader's cleanup removes only the registry entry of its own
\* process: in every step in which a reader deletes its key, on the normal
\* path or in the except clause, the entry it deletes holds its own process.
C32_ReaderRemovesOwnEntry ==
    [][\A r \in RunnerIds :
         (\/ runner[r].pc = "del" /\ runner'[r].pc = "emit_stopped"
          \/ runner[r].pc = "exc_del" /\ runner'[r].pc = "exc_emit")
         => running_instances[KeyOf(r)] = r]_vars


\* C33: after a stop request for a running instance whose living process the
\* handler signalled, once the stop handler and the reader of the instance
\* have both ended, the events of the instance hold exactly one
\* script_stopped and no script_finished.
C33_StopEmitsOneStopped ==
    \A h \in StopIds :
        (stopper[h].pc = "done" /\ stopper[h].looked # 0
           /\ stopper[h].looked \in stopper[h].signalled
           /\ ReaderEnded(stopper[h].looked))
        => /\ Count(elog[stopper[h].looked], "stopped") = 1
           /\ ~Has(elog[stopper[h].looked], "finished")


\* C34: for every started instance, script_started is emitted before any
\* script_output, progress or terminal event of the instance.
C34_StartedComesFirst ==
    \A r \in RunnerIds : runner[r].started # "late"

\* C35: script_started is emitted for an instance only if a child process was
\* spawned for it: a job whose launch ended in script not found, a missing
\* setting or a spawn failure has no script_started.
C35_StartedOnlyIfSpawned ==
    \A r \in RunnerIds :
        runner[r].launch \in {"not_found", "no_target", "spawn_failed"}
        => runner[r].started \notin {"first", "late"}


\* C36: the keyword worker never collects more users than its target: in
\* every progress line 'New user found: <username> (<n>/<m> - <pct>%)' it has
\* printed, n is at most m.
C36_CollectedWithinTarget ==
    \A i \in 1..Len(collector.printed) : collector.printed[i].n <= collector.printed[i].m


\* C37: with several workers of one account, no collected user is lost: when
\* no call of add_user_to_json is under way and no read or write of the
\* storage has failed, the stored list holds every username for which a call
\* returned True.
C37_NoCollectedUserLost ==
    (/\ ~store.failed
     /\ \A w \in DOMAIN store.adder : store.adder[w].pc = "idle")
    => store.returned_true \subseteq store.users

\* C38: add_user_to_json never removes a stored user: the save of a call whose
\* load of the existing list failed leaves every stored username in the list.
C38_LoadFailureKeepsStoredUsers ==
    [][\A w \in DOMAIN store.adder :
         (/\ store.adder[w].pc = "save" /\ store.adder[w].load_failed
          /\ store'.adder[w].pc = "idle")
         => store.users \subseteq store'.users]_vars


====
